---- MODULE Spec2Model ----
(***************************************************************************)
(* Model of the DynamicTable component (src/unnamed/part_000): the table   *)
(* state held in React state, the localStorage blob under "tableState",    *)
(* the load / migrate / validate path and the six mutations.               *)
(*                                                                         *)
(* JavaScript values are modelled as records:                              *)
(*   - a parsed JSON document is a record with a `type` ("object", "null"  *)
(*     for the falsy documents null/0/false, "number" for every other      *)
(*     non-object), an optional version, and the fields columns and rows,  *)
(*     each either an array (columnsIsArray) or something else;            *)
(*   - an array element records what validateState looks at: whether it   *)
(*     is null/undefined, the typeof of its id, name and cells;            *)
(*   - a string held by localStorage is a record: absent, the empty        *)
(*     string, text that JSON.parse rejects, or the text of a document.    *)
(* Strings typed into the column-name input are sequences of characters,   *)
(* so that trim() is computed.                                             *)
(***************************************************************************)
EXTENDS Integers, Sequences, FiniteSets, TLC

\* ---------------------------------------------------------------- bounds
NumIds == 3
NumValues == 2
MaxPad == 1
MaxCells == 2
NumBlobIds == 2
MaxBlobColumns == 2
MaxBlobRows == 1
MaxVersion == 2

\* ------------------------------------------------------ program constants
CURRENT_VERSION == 1
STORAGE_KEY == "tableState"
WARNING_TEXT == "Please provide a column name."

\* ids (crypto.randomUUID() values and ids found in a stored blob)
IdOf(i) == "id" \o ToString(i)
Ids == {IdOf(i) : i \in 1..NumIds}
\* cell texts
Values == {"v" \o ToString(i) : i \in 1..NumValues}
\* texts of the column-name input: a word, or nothing, between blanks
Words == {<<>>, <<"N">>}
spaces(n) == [i \in 1..n |-> " "]
NameInputs == {spaces(l) \o w \o spaces(r) : w \in Words, l \in 0..MaxPad, r \in 0..MaxPad}

\* ------------------------------------------------------------ JS helpers
RECURSIVE trimStart(_)
trimStart(s) ==
  IF s = <<>> THEN <<>>
  ELSE IF Head(s) = " " THEN trimStart(Tail(s)) ELSE s

RECURSIVE trimEnd(_)
trimEnd(s) ==
  IF s = <<>> THEN <<>>
  ELSE IF s[Len(s)] = " " THEN trimEnd(SubSeq(s, 1, Len(s) - 1)) ELSE s

\* String.prototype.trim
trim(s) == trimEnd(trimStart(s))

\* arr.findIndex((x) => x.id === id): 0-based, -1 when nothing matches
findIndex(arr, id) ==
  IF \E i \in 1..Len(arr) : arr[i].id = id
  THEN (CHOOSE i \in 1..Len(arr) :
          arr[i].id = id /\ \A j \in 1..(i - 1) : arr[j].id # id) - 1
  ELSE 0 - 1

\* arr.some((x) => x.id === id)
some(arr, id) == \E i \in 1..Len(arr) : arr[i].id = id

\* arr.filter((x) => x.id !== id)
filterOut(arr, id) == SelectSeq(arr, LAMBDA x : x.id # id)

\* {} : an object without keys
EmptyCells == [k \in {} |-> ""]

\* the element JavaScript yields for a missing array slot
Undefined ==
  [kind |-> "undefined", typeofId |-> "undefined", id |-> "", typeofName |-> "undefined",
   name |-> <<>>, typeofCells |-> "undefined", cells |-> EmptyCells, cellsAreStrings |-> TRUE]

\* a null array element, as JSON text can hold
NullElement == [Undefined EXCEPT !.kind = "null"]

\* interface Column { id: string; name: string }
Column(id, name) ==
  [kind |-> "object", typeofId |-> "string", id |-> id, typeofName |-> "string",
   name |-> name, typeofCells |-> "undefined", cells |-> EmptyCells, cellsAreStrings |-> TRUE]

\* interface Row { id: string; cells: { [key: string]: string } }
Row(id, cells) ==
  [kind |-> "object", typeofId |-> "string", id |-> id, typeofName |-> "undefined",
   name |-> <<>>, typeofCells |-> "object", cells |-> cells, cellsAreStrings |-> TRUE]

\* interface TableState { version: number; columns: Column[]; rows: Row[] }
TableState(version, columns, rows) ==
  [type |-> "object", hasVersion |-> TRUE, version |-> version,
   columnsIsArray |-> TRUE, columns |-> columns,
   rowsIsArray |-> TRUE, rows |-> rows]

\* a document that is not an object: null, 0, false ("null") or 5, "a", true
NonObject(type) ==
  [type |-> type, hasVersion |-> FALSE, version |-> 0,
   columnsIsArray |-> FALSE, columns |-> <<>>,
   rowsIsArray |-> FALSE, rows |-> <<>>]

\* useState<TableState | null>(null)
Null == NonObject("null")

initialState == TableState(CURRENT_VERSION, <<>>, <<>>)

\* Array.prototype.splice(start, deleteCount, ...items) on a copy:
\* the array left behind
spliceStart(arr, start) ==
  IF start < 0 THEN (IF Len(arr) + start < 0 THEN 0 ELSE Len(arr) + start)
  ELSE IF start > Len(arr) THEN Len(arr) ELSE start

spliceRemove1(arr, start) ==
  LET s == spliceStart(arr, start) IN
  IF s >= Len(arr) THEN arr
  ELSE SubSeq(arr, 1, s) \o SubSeq(arr, s + 2, Len(arr))

\* what splice(start, 1)[0] evaluates to
spliceRemoved1(arr, start) ==
  LET s == spliceStart(arr, start) IN
  IF s >= Len(arr) THEN Undefined ELSE arr[s + 1]

spliceInsert(arr, start, item) ==
  LET s == spliceStart(arr, start) IN
  SubSeq(arr, 1, s) \o <<item>> \o SubSeq(arr, s + 1, Len(arr))

\* arrayMove of @dnd-kit/sortable:
\*   const newArray = array.slice();
\*   newArray.splice(to < 0 ? newArray.length + to : to, 0,
\*                   newArray.splice(from, 1)[0]);
\* the insertion index is evaluated before the removal
arrayMove(array, from, to) ==
  LET at == IF to < 0 THEN Len(array) + to ELSE to
  IN spliceInsert(spliceRemove1(array, from), at, spliceRemoved1(array, from))

\* ------------------------------------------------- localStorage and JSON
\* localStorage.getItem(STORAGE_KEY) === null
Absent == [kind |-> "absent", doc |-> Null]
\* the stored string ""
EmptyText == [kind |-> "empty", doc |-> Null]
\* a stored string JSON.parse throws on
Malformed == [kind |-> "malformed", doc |-> Null]

\* JSON.stringify of an array: an undefined element is written as null
stringifyArray(arr) ==
  [i \in 1..Len(arr) |-> IF arr[i].kind = "undefined" THEN NullElement ELSE arr[i]]

\* JSON.stringify(value): the text of the document
stringify(value) ==
  [kind |-> "json",
   doc |-> [value EXCEPT !.columns = stringifyArray(@), !.rows = stringifyArray(@)]]

\* `if (savedState)`: null and "" are falsy
truthy(savedState) == savedState.kind \in {"malformed", "json"}

\* JSON.parse(text) returns normally
parses(savedState) == savedState.kind = "json"

\* JSON.parse(text)
parse(savedState) == savedState.doc

\* migrateState as it would be if it stamped the current version on every
\* object it is given
migrateState_StampsVersion(state) ==
  IF state.type # "object" THEN initialState
  ELSE TableState(CURRENT_VERSION,
                  IF state.columnsIsArray THEN state.columns ELSE <<>>,
                  IF state.rowsIsArray THEN state.rows ELSE <<>>)

\* ---------------------------------------------------- migrate / validate
migrateState(state) ==
  IF state.type # "object" THEN initialState
  ELSE IF ~state.hasVersion \/ state.version = 0
  THEN TableState(CURRENT_VERSION,
                  IF state.columnsIsArray THEN state.columns ELSE <<>>,
                  IF state.rowsIsArray THEN state.rows ELSE <<>>)
  ELSE state

validateState(state) ==
  /\ state.type = "object"
  /\ state.columnsIsArray /\ state.rowsIsArray
  /\ \A i \in 1..Len(state.columns) :
       LET col == state.columns[i] IN
       col.kind = "object" /\ col.typeofId = "string" /\ col.typeofName = "string"
  /\ \A i \in 1..Len(state.rows) :
       LET row == state.rows[i] IN
       /\ row.kind = "object"
       /\ row.typeofId = "string"
       /\ row.typeofCells = "object"
       /\ row.cellsAreStrings

\* getInitialState as it would be if it wrote the default state only when
\* nothing usable was stored, and left a blob that fails validation alone
getInitialState_KeepsInvalidBlob(store, writeOk) ==
  LET read == truthy(store) /\ parses(store)
      loaded == read /\ validateState(migrateState(parse(store)))
  IN IF loaded
     THEN [return |-> migrateState(parse(store)), storage |-> store,
           wrote |-> FALSE]
     ELSE [return |-> initialState,
           storage |-> IF writeOk /\ ~read THEN stringify(initialState) ELSE store,
           wrote |-> ~read]

\* getInitialState(): what it returns and what it leaves in storage.
\* wrote/writeOk: whether setItem was called and whether it returned normally.
getInitialState(store, writeOk) ==
  LET loaded == /\ truthy(store)
                /\ parses(store)
                /\ validateState(migrateState(parse(store)))
  IN IF loaded
     THEN [return |-> migrateState(parse(store)), storage |-> store,
           wrote |-> FALSE]
     ELSE [return |-> initialState,
           storage |-> IF writeOk THEN stringify(initialState) ELSE store,
           wrote |-> TRUE]

\* ------------------------------------------------------ stored blobs
\* ids and names found in a stored blob
BlobIds == {IdOf(i) : i \in 1..NumBlobIds}
BlobName == <<"N">>

\* array elements a stored blob may hold: well-formed ones, and one of each
\* kind validateState rejects
BlobColumnElements == {Column(id, BlobName) : id \in BlobIds}
BadColumnElements ==
  {NullElement,
   [Column("", BlobName) EXCEPT !.typeofId = "number"],
   [Column(IdOf(1), <<>>) EXCEPT !.typeofName = "undefined"]}
BlobCells ==
  {EmptyCells} \cup {[k \in {key} |-> "v1"] : key \in BlobIds}
BlobRowElements == {Row(id, cells) : id \in BlobIds, cells \in BlobCells}
BadRowElements ==
  {NullElement,
   [Row("", EmptyCells) EXCEPT !.typeofId = "number"],
   [Row(IdOf(1), EmptyCells) EXCEPT !.typeofCells = "string"],
   [Row(IdOf(1), EmptyCells) EXCEPT !.cellsAreStrings = FALSE]}

SeqsUpTo(S, n) == UNION {[1..k -> S] : k \in 0..n}

\* arrays of at most n well-formed elements, and such arrays with the last
\* element one validateState rejects
BlobArrays(good, bad, n) ==
  SeqsUpTo(good, n) \cup
  {Append(a, b) : a \in SeqsUpTo(good, n - 1), b \in bad}

\* the parsed documents a stored blob may hold; an absent version is
\* recorded as 0 and a field that is no array as <<>>
BlobDocs ==
  {NonObject("null"), NonObject("number")} \cup
  {[type |-> "object", hasVersion |-> hv[1], version |-> hv[2],
    columnsIsArray |-> cols[1], columns |-> cols[2],
    rowsIsArray |-> rws[1], rows |-> rws[2]] :
     hv \in {<<FALSE, 0>>} \cup ({TRUE} \X (0..MaxVersion)),
     cols \in {<<FALSE, <<>> >>} \cup
              ({TRUE} \X BlobArrays(BlobColumnElements, BadColumnElements,
                                    MaxBlobColumns)),
     rws \in {<<FALSE, <<>> >>} \cup
             ({TRUE} \X BlobArrays(BlobRowElements, BadRowElements,
                                   MaxBlobRows))}

Blobs ==
  {Absent, EmptyText, Malformed} \cup {[kind |-> "json", doc |-> d] : d \in BlobDocs}

\* every id a state mentions
idsOf(state) ==
  {state.columns[i].id : i \in 1..Len(state.columns)} \cup
  {state.rows[i].id : i \in 1..Len(state.rows)} \cup
  UNION {DOMAIN state.rows[i].cells : i \in 1..Len(state.rows)}

\* ---------------------------------------------------------------- state
VARIABLES
  storage,        \* localStorage[STORAGE_KEY]
  tableState,     \* useState<TableState | null>(null)
  newColumnName,  \* useState("")
  warning,        \* useState<string>("")
  pc,             \* "mount": effects not yet run; "loaded": the load effect
                  \* has run and the save effect is pending; "idle": waiting
                  \* for an event; "crashed": a render threw
  savedState,     \* the string getInitialState read from storage
  saveError,      \* the last localStorage.setItem threw
  usedIds,        \* ids seen so far: crypto.randomUUID() returns none of them
  storageFull,    \* the environment: localStorage.setItem throws (quota
                  \* exceeded, storage disabled) throughout the session
  last            \* the effect or table handler that ran last, and whether
                  \* it found the ids (or the name) it was given

vars ==
  <<storage, tableState, newColumnName, warning, pc, savedState, saveError,
    usedIds, storageFull, last>>

TypeOK ==
  /\ pc \in {"mount", "loaded", "idle", "crashed"}
  /\ warning \in {"", WARNING_TEXT}
  /\ newColumnName \in NameInputs
  /\ saveError \in BOOLEAN
  /\ usedIds \subseteq Ids
  /\ storageFull \in BOOLEAN

Event(op, found) == [op |-> op, found |-> found]

InitWith(blobs, full) ==
  /\ storage \in blobs
  /\ tableState = Null
  /\ newColumnName = <<>>
  /\ warning = ""
  /\ pc = "mount"
  /\ savedState = Absent
  /\ saveError = FALSE
  /\ usedIds = {}
  /\ storageFull \in full
  /\ last = Event("none", FALSE)

\* crypto.randomUUID(): a value no earlier call returned and no stored blob
\* held.  Ids are opaque and only compared for equality, so the first unseen
\* one stands for every fresh value; none is left once NumIds are in use.
randomUUID ==
  LET unseen == {i \in 1..NumIds : IdOf(i) \notin usedIds} IN
  IF unseen = {} THEN {}
  ELSE {IdOf(CHOOSE i \in unseen : \A j \in unseen : i <= j)}

\* localStorage.setItem returns normally (TRUE) or throws (FALSE)
setItemOutcomes == {~storageFull}

\* a render of rows.map((row) => ... row.id ...) throws on an undefined row
renderThrows(state) ==
  \E i \in 1..Len(state.rows) : state.rows[i].kind # "object"

\* the save effect as it would be if it serialized the state of the render
\* before the update
saveEffect_StaleState(state) ==
  \E writeOk \in setItemOutcomes :
    /\ storage' = IF writeOk THEN stringify(tableState) ELSE storage
    /\ saveError' = ~writeOk

\* the save effect:
\*   try { localStorage.setItem(STORAGE_KEY, JSON.stringify(tableState)) }
\*   catch (error) { console.error(...) }
saveEffect(state) ==
  \E writeOk \in setItemOutcomes :
    /\ storage' = IF writeOk THEN stringify(state) ELSE storage
    /\ saveError' = ~writeOk

\* setTableState(next) in an event handler: the component renders next and
\* the save effect runs before the next event is handled; when the render
\* throws nothing is committed and no effect runs
setTableState(next) ==
  /\ tableState' = next
  /\ usedIds' = usedIds \cup (idsOf(next) \cap Ids)
  /\ IF renderThrows(next)
     THEN /\ pc' = "crashed"
          /\ UNCHANGED <<storage, saveError>>
     ELSE /\ pc' = "idle"
          /\ saveEffect(next)
  /\ UNCHANGED storageFull

\* the load effect: setTableState(getInitialState())
Load ==
  /\ pc = "mount"
  /\ \E writeOk \in setItemOutcomes :
       LET r == getInitialState(storage, writeOk) IN
       /\ tableState' = r.return
       /\ usedIds' = usedIds \cup (idsOf(r.return) \cap Ids)
       /\ storage' = r.storage
       /\ saveError' = (r.wrote /\ ~writeOk)
  /\ savedState' = storage
  /\ pc' = "loaded"
  /\ last' = Event("load", ~getInitialState(storage, TRUE).wrote)
  /\ UNCHANGED <<newColumnName, warning, storageFull>>

\* the save effect, run for the state the load effect set
SaveEffect ==
  /\ pc = "loaded"
  /\ saveEffect(tableState)
  /\ pc' = "idle"
  /\ UNCHANGED <<tableState, newColumnName, warning, savedState, usedIds,
                 storageFull, last>>

\* onChange of the column-name input
onChange(value) ==
  /\ pc = "idle"
  /\ newColumnName' = value
  /\ warning' = ""
  /\ UNCHANGED <<storage, tableState, pc, savedState, saveError, usedIds,
                 storageFull, last>>

\* the updater of addColumn as it would be if it kept the name as typed
addColumnUpdate_NoTrim(prev, id, name) ==
  [prev EXCEPT !.columns = Append(@, Column(id, name))]

\* the updater of addColumn, with the id crypto.randomUUID() returned
addColumnUpdate(prev, id, name) ==
  [prev EXCEPT !.columns = Append(@, Column(id, trim(name)))]

addColumn ==
  /\ pc = "idle"
  /\ last' = Event("addColumn", trim(newColumnName) # <<>>)
  /\ UNCHANGED savedState
  /\ IF trim(newColumnName) = <<>>
     THEN /\ warning' = WARNING_TEXT
          /\ UNCHANGED <<storage, tableState, newColumnName, pc, saveError,
                         usedIds, storageFull>>
     ELSE \E id \in randomUUID :
          /\ warning' = ""
          /\ setTableState(addColumnUpdate(tableState, id, newColumnName))
          /\ newColumnName' = <<>>

\* const { [columnId]: _, ...rest } = row.cells
rest(cells, columnId) == [k \in (DOMAIN cells) \ {columnId} |-> cells[k]]

\* the updater of deleteColumn as it would be without the cascade to cells
deleteColumnUpdate_NoCascade(prev, columnId) ==
  [prev EXCEPT !.columns = filterOut(@, columnId)]

deleteColumnUpdate(prev, columnId) ==
  [prev EXCEPT
     !.columns = filterOut(@, columnId),
     !.rows = [i \in 1..Len(@) |-> [@[i] EXCEPT !.cells = rest(@, columnId)]]]

deleteColumn(columnId) ==
  /\ pc = "idle"
  /\ setTableState(deleteColumnUpdate(tableState, columnId))
  /\ last' = Event("deleteColumn", some(tableState.columns, columnId))
  /\ UNCHANGED <<newColumnName, warning, savedState>>

addRowUpdate(prev, id) ==
  [prev EXCEPT !.rows = Append(@, Row(id, EmptyCells))]

addRow ==
  /\ pc = "idle"
  /\ \E id \in randomUUID : setTableState(addRowUpdate(tableState, id))
  /\ last' = Event("addRow", TRUE)
  /\ UNCHANGED <<newColumnName, warning, savedState>>

deleteRowUpdate(prev, rowId) ==
  [prev EXCEPT !.rows = filterOut(@, rowId)]

deleteRow(rowId) ==
  /\ pc = "idle"
  /\ setTableState(deleteRowUpdate(tableState, rowId))
  /\ last' = Event("deleteRow", some(tableState.rows, rowId))
  /\ UNCHANGED <<newColumnName, warning, savedState>>

\* { ...row.cells, [columnId]: value }
setCell(cells, columnId, value) ==
  [k \in (DOMAIN cells) \cup {columnId} |->
     IF k = columnId THEN value ELSE cells[k]]

updateCellUpdate(prev, rowId, columnId, value) ==
  [prev EXCEPT
     !.rows = [i \in 1..Len(@) |->
                 IF @[i].id = rowId
                 THEN [@[i] EXCEPT !.cells = setCell(@, columnId, value)]
                 ELSE @[i]]]

\* how many cell entries the table holds
cellCount(state) ==
  Cardinality({ik \in (1..Len(state.rows)) \X Ids :
                 ik[2] \in DOMAIN state.rows[ik[1]].cells})

\* the guard on cellCount caps the size of the table, not the handler
updateCell(rowId, columnId, value) ==
  /\ pc = "idle"
  /\ cellCount(updateCellUpdate(tableState, rowId, columnId, value)) <= MaxCells
  /\ setTableState(updateCellUpdate(tableState, rowId, columnId, value))
  /\ last' = Event("updateCell", some(tableState.rows, rowId)
                                    /\ some(tableState.columns, columnId))
  /\ UNCHANGED <<newColumnName, warning, savedState>>

\* the array with the elements at the two 0-based indexes exchanged
arraySwap(array, from, to) ==
  IF from < 0 \/ to < 0 THEN array
  ELSE [i \in 1..Len(array) |->
          IF i = from + 1 THEN array[to + 1]
          ELSE IF i = to + 1 THEN array[from + 1] ELSE array[i]]

\* the updater of handleDragEnd as it would be if it exchanged the two
\* elements instead of moving one
handleDragEndUpdate_Swap(prev, activeId, overId) ==
  LET isColumn == some(prev.columns, activeId) IN
  IF isColumn
  THEN [prev EXCEPT !.columns =
          arraySwap(@, findIndex(@, activeId), findIndex(@, overId))]
  ELSE [prev EXCEPT !.rows =
          arraySwap(@, findIndex(@, activeId), findIndex(@, overId))]

\* the updater of handleDragEnd
handleDragEndUpdate(prev, activeId, overId) ==
  LET isColumn == some(prev.columns, activeId) IN
  IF isColumn
  THEN [prev EXCEPT !.columns =
          arrayMove(@, findIndex(@, activeId), findIndex(@, overId))]
  ELSE [prev EXCEPT !.rows =
          arrayMove(@, findIndex(@, activeId), findIndex(@, overId))]

\* the sequence handleDragEnd reorders for this active id
dragged(state, activeId) ==
  IF some(state.columns, activeId) THEN state.columns ELSE state.rows

\* handleDragEnd({active, over}); over is null when hasOver is FALSE.
\* The DndContexts that call it are rendered only when the table is not empty.
handleDragEnd(activeId, hasOver, overId) ==
  /\ pc = "idle"
  /\ ~(Len(tableState.columns) = 0 /\ Len(tableState.rows) = 0)
  /\ IF ~hasOver \/ activeId = overId
     THEN UNCHANGED <<storage, tableState, pc, saveError, usedIds, storageFull>>
     ELSE setTableState(handleDragEndUpdate(tableState, activeId, overId))
  /\ last' = Event("handleDragEnd",
                   /\ hasOver
                   /\ activeId # overId
                   /\ some(dragged(tableState, activeId), activeId)
                   /\ some(dragged(tableState, activeId), overId))
  /\ UNCHANGED <<newColumnName, warning, savedState>>

Next ==
  \/ Load
  \/ SaveEffect
  \/ \E value \in NameInputs : onChange(value)
  \/ addColumn
  \/ \E columnId \in Ids : deleteColumn(columnId)
  \/ addRow
  \/ \E rowId \in Ids : deleteRow(rowId)
  \/ \E rowId \in Ids, columnId \in Ids, value \in Values :
       updateCell(rowId, columnId, value)
  \/ \E activeId \in Ids, hasOver \in BOOLEAN, overId \in Ids :
       /\ hasOver \/ overId = activeId
       /\ handleDragEnd(activeId, hasOver, overId)

\* the page opened with nothing stored, on a storage that takes every write
StartBlobs == {Absent}

Init == InitWith(StartBlobs, {FALSE})

Spec == Init /\ [][Next]_vars

\* the page opened on any stored blob, on a storage that takes every write
\* or none: the load path alone
InitLoad == InitWith(Blobs, BOOLEAN)

NextLoad == Load \/ SaveEffect

SpecLoad == InitLoad /\ [][NextLoad]_vars

\* ------------------------------------------------------------- properties
columnIds(state) == {state.columns[i].id : i \in 1..Len(state.columns)}
rowIds(state) == {state.rows[i].id : i \in 1..Len(state.rows)}
cellKeys(state) == UNION {DOMAIN state.rows[i].cells : i \in 1..Len(state.rows)}

\* the table is on screen: hydrated and not crashed
Hydrated == pc \in {"loaded", "idle"}

\* a stored blob that parses and that validateState rejects after migrateState
InvalidBlob(blob) ==
  /\ truthy(blob)
  /\ parses(blob)
  /\ ~validateState(migrateState(parse(blob)))

\* C1 as stated: after getInitialState has read a blob that parses and fails
\* validation, the table is the empty initial state and storage still holds
\* the blob that was read.
C1_InvalidBlobLeftInStorage ==
  (pc = "loaded" /\ InvalidBlob(savedState)) =>
     (tableState = initialState /\ storage = savedState)

\* C1 amended: after getInitialState has read a blob that parses and fails
\* validation, the table is the empty initial state and storage holds the
\* serialized empty initial state; the blob that was read stays only when
\* the write threw.
C1_InvalidBlobOverwritten ==
  (pc = "loaded" /\ InvalidBlob(savedState)) =>
     /\ tableState = initialState
     /\ storage = (IF saveError THEN savedState ELSE stringify(initialState))
     /\ saveError = storageFull

C1_Witness ==
  /\ pc = "loaded"
  /\ InvalidBlob(savedState)
  /\ ~saveError
  /\ storage # savedState

\* C2: once the load effect has run, the version of the table is
\* CURRENT_VERSION, whatever the stored blob was.
C2_VersionIsCurrent ==
  Hydrated => (tableState.hasVersion /\ tableState.version = CURRENT_VERSION)

\* C3: after a mutation has completed, every key of every row's cells is the
\* id of a column of the table.
C3_NoDanglingCellKeys ==
  (pc = "idle" /\ last.op \in {"addColumn", "deleteColumn", "addRow",
                                "deleteRow", "updateCell", "handleDragEnd"})
    => cellKeys(tableState) \subseteq columnIds(tableState)

\* C4: no two columns of the table share an id and no two rows share an id.
C4_UniqueIds ==
  Hydrated =>
    /\ \A i, j \in 1..Len(tableState.columns) :
         tableState.columns[i].id = tableState.columns[j].id => i = j
    /\ \A i, j \in 1..Len(tableState.rows) :
         tableState.rows[i].id = tableState.rows[j].id => i = j

\* C5: deleteRow with a row id that is not in rows, deleteColumn with a column
\* id that is not in columns, and handleDragEnd with an active or over id that
\* is not in the sequence it reorders, leave the table as it was.
C5_UnknownIdIsNoOp ==
  [][ /\ \A rowId \in Ids :
           (/\ last'.op = "deleteRow"
            /\ ~some(tableState.rows, rowId)
            /\ deleteRow(rowId))
              => tableState' = tableState
      /\ \A columnId \in Ids :
           (/\ last'.op = "deleteColumn"
            /\ ~some(tableState.columns, columnId)
            /\ deleteColumn(columnId))
              => tableState' = tableState
      /\ \A activeId \in Ids, overId \in Ids :
           (/\ last'.op = "handleDragEnd"
            /\ \/ ~some(dragged(tableState, activeId), activeId)
               \/ ~some(dragged(tableState, activeId), overId)
            /\ handleDragEnd(activeId, TRUE, overId))
              => tableState' = tableState ]_vars

\* name is text without the blanks at its two ends
isTrimOf(name, text) ==
  /\ name = <<>> \/ (name[1] # " " /\ name[Len(name)] # " ")
  /\ \E l, r \in 0..Len(text) : text = spaces(l) \o name \o spaces(r)

\* C6: addColumn with a name that is blank leaves the table unchanged and sets
\* the warning; with any other name it appends one column, with an id the
\* table did not hold and the trimmed name, after the existing columns, and
\* leaves the existing columns, the rows and the version as they were.
C6_AddColumn ==
  [][ (last'.op = "addColumn" /\ addColumn) =>
        IF \A i \in 1..Len(newColumnName) : newColumnName[i] = " "
        THEN /\ tableState' = tableState
             /\ warning' = WARNING_TEXT
        ELSE LET n == Len(tableState.columns)
                 added == tableState'.columns[n + 1] IN
             /\ Len(tableState'.columns) = n + 1
             /\ SubSeq(tableState'.columns, 1, n) = tableState.columns
             /\ added.kind = "object" /\ added.typeofId = "string"
             /\ added.typeofName = "string"
             /\ added.id \notin columnIds(tableState) \cup rowIds(tableState)
             /\ isTrimOf(added.name, newColumnName)
             /\ tableState'.rows = tableState.rows
             /\ tableState'.version = tableState.version ]_vars

C6_Witness ==
  /\ last = Event("addColumn", TRUE)
  /\ Len(tableState.columns) = 2
  /\ Len(tableState.rows) = 1
  /\ warning = ""

\* C7: deleteColumn of a column id c that is in columns leaves no column with
\* id c and no cell under key c; the other columns keep their order, the rows
\* their number and order, and every cell under another key its value.
C7_DeleteColumnCascades ==
  [][ \A c \in Ids :
        (/\ last' = Event("deleteColumn", TRUE)
         /\ some(tableState.columns, c)
         /\ deleteColumn(c)) =>
          /\ c \notin columnIds(tableState')
          /\ c \notin cellKeys(tableState')
          /\ tableState'.columns = SelectSeq(tableState.columns, LAMBDA x : x.id # c)
          /\ Len(tableState'.rows) = Len(tableState.rows)
          /\ \A i \in 1..Len(tableState.rows) :
               /\ tableState'.rows[i].id = tableState.rows[i].id
               /\ \A k \in Ids \ {c} :
                    /\ k \in DOMAIN tableState'.rows[i].cells
                         <=> k \in DOMAIN tableState.rows[i].cells
                    /\ k \in DOMAIN tableState.rows[i].cells =>
                         tableState'.rows[i].cells[k] = tableState.rows[i].cells[k]
    ]_vars

C7_Witness ==
  /\ last = Event("deleteColumn", TRUE)
  /\ Len(tableState.columns) = 1
  /\ Len(tableState.rows) = 1
  /\ cellKeys(tableState) = columnIds(tableState)

\* the sequence without its k-th element
removeAt(seq, k) == SubSeq(seq, 1, k - 1) \o SubSeq(seq, k + 1, Len(seq))

\* after is before with the element at position i taken out and put back at
\* position j
isMove(before, after, i, j) ==
  /\ Len(after) = Len(before)
  /\ after[j] = before[i]
  /\ removeAt(after, j) = removeAt(before, i)

\* C8: handleDragEnd with distinct active and over ids that are both in the
\* sequence it reorders moves the active element to the index the over
\* element had; the other sequence, the cells and the version stay.
C8_ReorderMoves ==
  [][ \A activeId \in Ids, overId \in Ids :
        (/\ last' = Event("handleDragEnd", TRUE)
         /\ activeId # overId
         /\ some(dragged(tableState, activeId), activeId)
         /\ some(dragged(tableState, activeId), overId)
         /\ handleDragEnd(activeId, TRUE, overId)) =>
          LET i == findIndex(dragged(tableState, activeId), activeId) + 1
              j == findIndex(dragged(tableState, activeId), overId) + 1 IN
          IF some(tableState.columns, activeId)
          THEN /\ isMove(tableState.columns, tableState'.columns, i, j)
               /\ tableState'.rows = tableState.rows
               /\ tableState'.version = tableState.version
          ELSE /\ isMove(tableState.rows, tableState'.rows, i, j)
               /\ tableState'.columns = tableState.columns
               /\ tableState'.version = tableState.version ]_vars

C8_Witness ==
  /\ last = Event("handleDragEnd", TRUE)
  /\ Len(tableState.columns) = 3
  /\ tableState.columns[1].id = IdOf(3)
  /\ tableState.columns[2].id = IdOf(1)
  /\ tableState.columns[3].id = IdOf(2)

\* C9: when the table is hydrated and the last write to storage returned
\* normally, storage holds the serialization of the table, that blob passes
\* validateState after migrateState, and getInitialState on it returns the
\* table.
C9_RoundTrip ==
  (pc = "idle" /\ ~saveError) =>
     /\ storage = stringify(tableState)
     /\ validateState(migrateState(parse(storage)))
     /\ getInitialState(storage, TRUE).return = tableState
     /\ getInitialState(storage, TRUE).storage = storage

C9_Witness ==
  /\ pc = "idle"
  /\ ~saveError
  /\ last = Event("updateCell", TRUE)
  /\ Len(tableState.columns) = 2
  /\ cellCount(tableState) = 2

\* C10 as stated: migrateState returns every object that has a version field
\* unchanged, whatever the value of the field.
C10_VersionedPassesThrough ==
  (pc = "loaded" /\ parses(savedState)) =>
     LET raw == parse(savedState) IN
     (raw.type = "object" /\ raw.hasVersion) => migrateState(raw) = raw

\* C10 amended: migrateState returns an object whose version field is truthy
\* unchanged; anything else (no object, no version field, a falsy version
\* such as 0) is rebuilt with the current version and with the columns and
\* rows of raw where they are arrays, empty arrays where they are not.
C10_Migrate ==
  (pc = "loaded" /\ parses(savedState)) =>
     LET raw == parse(savedState)
         isObject == raw.type = "object" IN
     IF isObject /\ raw.hasVersion /\ raw.version # 0
     THEN migrateState(raw) = raw
     ELSE migrateState(raw) =
            TableState(CURRENT_VERSION,
                       IF isObject /\ raw.columnsIsArray THEN raw.columns ELSE <<>>,
                       IF isObject /\ raw.rowsIsArray THEN raw.rows ELSE <<>>)

C10_Witness ==
  /\ pc = "loaded"
  /\ parses(savedState)
  /\ parse(savedState).hasVersion
  /\ parse(savedState).version = 0
  /\ Len(parse(savedState).columns) = 1
  /\ tableState.version = CURRENT_VERSION
  /\ Len(tableState.columns) = 1

====
